---------------------------- MODULE Spec2Model ----------------------------
(***************************************************************************)
(* Tray lifecycle of src/main.py: the priority/colour engine and the       *)
(* restock-task lifecycle (dropoff, inventory check, full and partial      *)
(* restock), with the tables Tray, TrayItem, RestockTask, RestockTaskItem, *)
(* Event and StandaloneItem of the relational store.                       *)
(*                                                                         *)
(* A table is a sequence of rows; a row's id is its position (the store    *)
(* numbers rows 1, 2, ... and these tables never delete a row).  Python's  *)
(* None is the integer -1 in integer columns and "None" in string columns  *)
(* and in optional booleans of a request.  Timestamps are not modelled.    *)
(***************************************************************************)
EXTENDS Integers, Sequences, FiniteSets, TLC

\* ------------------------------------------------------------------ bounds
MaxTrays     == 1   \* trays that create_tray may create
MaxItems     == 2   \* tray items that create_tray_item may create
MaxEvents    == 4   \* committed lifecycle calls of one run (length of the Event table)
MaxReqItems  == 2   \* length of the item list of one request
MaxQty       == 2   \* largest quantity in a request or a seed
MaxStandalone == 1  \* standalone items that create_standalone_item may create
MaxDoctors   == 2   \* largest id of a Doctor row
MaxCases     == 1   \* largest id of a Case row
MaxNotes     == 2   \* largest id of a Note row
MaxPins      == 3   \* largest id of a NotePin row

\* --------------------------------------------------------------- constants
None      == -1
NoneStr   == "None"

COLOR_GREEN  == "green"
COLOR_BLUE   == "blue"
COLOR_YELLOW == "yellow"
COLOR_ORANGE == "orange"
COLOR_RED    == "red"

\* TrayStatus
ready         == "ready"
in_location   == "in_location"
needs_restock == "needs_restock"

\* RestockStatus
open   == "open"
closed == "closed"

USER_ID == "rep001"

VARIABLES
    trays,              \* table Tray
    trayItems,          \* table TrayItem
    restockTasks,       \* table RestockTask
    restockTaskItems,   \* table RestockTaskItem
    events,             \* table Event (append-only)
    standaloneItems,    \* table StandaloneItem
    response,           \* the response to the last lifecycle call: [op, code]
    pc,                 \* position of each concurrent request (SpecConc)
    local,              \* locals of each concurrent request (SpecConc)
    conn,               \* the one connection's transaction (SpecShared)
    doctors,            \* table Doctor
    cases,              \* table Case
    notes,              \* table Note
    notePins            \* table NotePin

db   == <<trays, trayItems, restockTasks, restockTaskItems, events, standaloneItems>>
conc == <<pc, local, conn>>
notesDb == <<doctors, cases, notes, notePins>>
vars == <<trays, trayItems, restockTasks, restockTaskItems, events, standaloneItems,
          response, pc, local, conn, doctors, cases, notes, notePins>>

\* ---------------------------------------------------------------- helpers
Max(a, b) == IF a >= b THEN a ELSE b
Min(a, b) == IF a <= b THEN a ELSE b
MinOf(S)  == CHOOSE x \in S : \A y \in S : x <= y

\* Python's `x or 0` on an Optional[int]
OrZero(x) == IF x = None THEN 0 ELSE x

\* ----------------------------------------------- priority and colour logic
\* map_color that looks at the priority before it looks at ready
map_color_numeric_first(priority_numeric, partial, is_ready) ==
    IF priority_numeric = 1 THEN COLOR_RED
    ELSE IF priority_numeric = 2 THEN COLOR_ORANGE
    ELSE IF priority_numeric = 3 THEN COLOR_YELLOW
    ELSE IF is_ready THEN COLOR_GREEN
    ELSE IF partial THEN COLOR_BLUE
    ELSE COLOR_GREEN

map_color(priority_numeric, partial, is_ready) ==
    IF is_ready THEN COLOR_GREEN
    ELSE IF priority_numeric # None /\ priority_numeric = 1 THEN COLOR_RED
    ELSE IF priority_numeric # None /\ priority_numeric = 2 THEN COLOR_ORANGE
    ELSE IF priority_numeric # None /\ priority_numeric = 3 THEN COLOR_YELLOW
    ELSE IF partial THEN COLOR_BLUE
    ELSE COLOR_GREEN

\* apply_priority_non_downgrade that adopts any numeric it is given
apply_priority_overwrite(existing_numeric, existing_partial, new_numeric, new_partial) ==
    LET out_numeric == IF new_numeric # None THEN new_numeric ELSE existing_numeric
        out_partial == IF new_partial /\ out_numeric = None THEN TRUE ELSE existing_partial
    IN  <<out_numeric, out_partial>>

\* apply_priority_non_downgrade with the comparison turned round
apply_priority_smaller_wins(existing_numeric, existing_partial, new_numeric, new_partial) ==
    LET out_numeric == IF new_numeric # None
                          /\ (existing_numeric = None \/ new_numeric < existing_numeric)
                       THEN new_numeric
                       ELSE existing_numeric
        out_partial == IF new_partial /\ out_numeric = None
                       THEN TRUE
                       ELSE existing_partial
    IN  <<out_numeric, out_partial>>

\* returns <<out_numeric, out_partial>>
apply_priority_non_downgrade(existing_numeric, existing_partial, new_numeric, new_partial) ==
    LET out_numeric == IF new_numeric # None
                          /\ (existing_numeric = None \/ new_numeric > existing_numeric)
                       THEN new_numeric
                       ELSE existing_numeric
        out_partial == IF new_partial /\ out_numeric = None
                       THEN TRUE
                       ELSE existing_partial
    IN  <<out_numeric, out_partial>>

auto_escalation_suggestion(has_assigned_case_within_72h, case_count_per_week, tray_avg_weekly, any_critical_missing) ==
    LET points == (IF case_count_per_week > tray_avg_weekly THEN 1 ELSE 0)
                  + (IF has_assigned_case_within_72h THEN 1 ELSE 0)
                  + (IF any_critical_missing THEN 1 ELSE 0)
    IN  IF points >= 3 THEN 3
        ELSE IF points = 2 THEN 2
        ELSE IF points = 1 THEN 1
        ELSE None

\* ------------------------------------------------------------ store queries
TrayExists(tray_id) == tray_id \in 1..Len(trays)

\* select(RestockTask).where(tray_id == t, status == open), as row ids of table `tasks`
OpenTasksOf(tasks, tray_id) ==
    {k \in 1..Len(tasks) : tasks[k].tray_id = tray_id /\ tasks[k].status = open}

\* select(RestockTaskItem).where(task_id == k, restocked == False), as row ids of `rtis`
UnresolvedOf(rtis, task_id) ==
    {r \in 1..Len(rtis) : rtis[r].task_id = task_id /\ ~rtis[r].restocked}

\* select(TrayItem).where(tray_id == t), as row ids
ItemsOfTray(tray_id) == {i \in 1..Len(trayItems) : trayItems[i].tray_id = tray_id}

\* ensure_open_restock_task without the lookup: a task is created on every call
ensure_open_restock_task_no_lookup(tasks, tray_id) ==
    <<Append(tasks, [tray_id |-> tray_id, status |-> open]), Len(tasks) + 1>>

\* the lookup of ensure_open_restock_task: the id of an open task of the tray,
\* or None; .first() returns the row the store's scan meets first, the lowest id.
ensure_open_restock_task_select(tasks, tray_id) ==
    LET found == OpenTasksOf(tasks, tray_id)
    IN  IF found # {} THEN MinOf(found) ELSE None

\* ensure_open_restock_task_create that reopens a closed task of the tray
\* when there is one
ensure_open_restock_task_reopen(tasks, tray_id, task) ==
    LET was_closed == {k \in 1..Len(tasks) :
                          tasks[k].tray_id = tray_id /\ tasks[k].status = closed}
    IN  IF task # None
        THEN <<tasks, task>>
        ELSE IF was_closed # {}
        THEN <<[tasks EXCEPT ![MinOf(was_closed)].status = open], MinOf(was_closed)>>
        ELSE <<Append(tasks, [tray_id |-> tray_id, status |-> open]), Len(tasks) + 1>>

\* the rest of ensure_open_restock_task, given what the lookup returned:
\* <<tasks after the call, id of the task returned>>
ensure_open_restock_task_create(tasks, tray_id, task) ==
    IF task # None
    THEN <<tasks, task>>
    ELSE <<Append(tasks, [tray_id |-> tray_id, status |-> open]), Len(tasks) + 1>>

ensure_open_restock_task(tasks, tray_id) ==
    ensure_open_restock_task_create(tasks, tray_id,
        ensure_open_restock_task_select(tasks, tray_id))

\* close_restock_task_if_empty without the test for unresolved rows
close_restock_task_always(tasks, rtis, tray_id) ==
    LET found == OpenTasksOf(tasks, tray_id)
    IN  IF found = {} THEN tasks
        ELSE [tasks EXCEPT ![MinOf(found)].status = closed]

\* close_restock_task_if_empty: the tasks after the call
close_restock_task_if_empty(tasks, rtis, tray_id) ==
    LET found == OpenTasksOf(tasks, tray_id)
    IN  IF found = {} THEN tasks
        ELSE LET task == MinOf(found)
             IN  IF UnresolvedOf(rtis, task) = {}
                 THEN [tasks EXCEPT ![task].status = closed]
                 ELSE tasks

\* ------------------------------------------------------------------- rows
NewTray(name) ==
    [name |-> name, status |-> ready, priority_numeric |-> None, priority_partial |-> FALSE,
     color |-> COLOR_GREEN, last_seen_lat |-> None, last_seen_lng |-> None,
     last_location_type |-> NoneStr, linked_case_id |-> NoneStr]

\* NewEvent that files every event under tray id 0
NewEvent_no_tray(tray_id, type, gps) ==
    [tray_id |-> 0, type |-> type, gps_lat |-> gps.lat, gps_lng |-> gps.lng]

NewEvent(tray_id, type, gps) ==
    [tray_id |-> tray_id, type |-> type, gps_lat |-> gps.lat, gps_lng |-> gps.lng]

Respond(op, code) == response' = [op |-> op, code |-> code]

\* a request that raises HTTPException: the session is closed without a commit
Reject(op, code) == Respond(op, code) /\ UNCHANGED <<db, conc, notesDb>>

\* ------------------------------------------------------------ seed endpoints
\* (a seed call that is rejected changes nothing; `response` follows the
\* lifecycle calls only)
create_tray(p) ==
    IF \E t \in 1..Len(trays) : trays[t].name = p.name
    THEN UNCHANGED vars
    ELSE /\ Len(trays) < MaxTrays
         /\ trays' = Append(trays,
                LET tray == NewTray(p.name)
                IN  [tray EXCEPT !.color = map_color(tray.priority_numeric,
                                      tray.priority_partial, tray.status = ready)])
         /\ UNCHANGED <<trayItems, restockTasks, restockTaskItems, events, standaloneItems,
                        response, conc, notesDb>>

create_tray_item(p) ==
    IF ~TrayExists(p.tray_id)
    THEN UNCHANGED vars
    ELSE IF \E i \in ItemsOfTray(p.tray_id) : trayItems[i].sku = p.sku
    THEN UNCHANGED vars
    ELSE /\ Len(trayItems) < MaxItems
         /\ trayItems' = Append(trayItems,
                [tray_id |-> p.tray_id, sku |-> p.sku,
                 qty_expected |-> p.qty_expected, qty_on_hand |-> p.qty_on_hand])
         /\ UNCHANGED <<trays, restockTasks, restockTaskItems, events, standaloneItems,
                        response, conc, notesDb>>

\* ------------------------------------------------------------------ dropoff
\* the tray row of a dropoff without the recomputation of the colour
log_dropoff_tray_stale(tray, p) ==
    [tray EXCEPT
        !.status = in_location,
        !.last_seen_lat = p.gps.lat,
        !.last_seen_lng = p.gps.lng,
        !.last_location_type = p.location_type,
        !.linked_case_id = IF p.case_id # NoneStr THEN p.case_id ELSE @]

\* log_dropoff_tray that also resets the priority, as a full restock does
log_dropoff_tray_clears_priority(tray, p) ==
    LET t1 == [tray EXCEPT
                 !.status = in_location,
                 !.priority_numeric = None,
                 !.priority_partial = FALSE,
                 !.last_seen_lat = p.gps.lat,
                 !.last_seen_lng = p.gps.lng,
                 !.last_location_type = p.location_type,
                 !.linked_case_id = IF p.case_id # NoneStr THEN p.case_id ELSE @]
    IN  [t1 EXCEPT !.color =
                 map_color(t1.priority_numeric, t1.priority_partial, t1.status = ready)]

\* the tray row after the handler's assignments
log_dropoff_tray(tray, p) ==
    LET t1 == [tray EXCEPT
                 !.status = in_location,
                 !.last_seen_lat = p.gps.lat,
                 !.last_seen_lng = p.gps.lng,
                 !.last_location_type = p.location_type,
                 !.linked_case_id = IF p.case_id # NoneStr THEN p.case_id ELSE @]
    IN  [t1 EXCEPT !.color =
                 map_color(t1.priority_numeric, t1.priority_partial, t1.status = ready)]

log_dropoff(p) ==
    IF ~TrayExists(p.tray_id)
    THEN Reject("dropoff", 404)
    ELSE /\ Len(events) < MaxEvents
         /\ events' = Append(events, NewEvent(p.tray_id, "dropoff", p.gps))
         /\ trays' = [trays EXCEPT ![p.tray_id] = log_dropoff_tray(@, p)]
         /\ Respond("dropoff", 200)
         /\ UNCHANGED <<trayItems, restockTasks, restockTaskItems, standaloneItems, conc, notesDb>>

\* ----------------------------------------------------------- inventory check
\* bool(x) of an Optional[bool] of a request; `x or False`, `x or 0.0`
PyBool(x) == x = "True"
OrZeroF(x) == IF x = None THEN 0 ELSE x

\* inventory_check_rows that inserts a row without looking for an existing one
inventory_check_rows_insert(rtis, task_id, it) ==
    Append(rtis, [task_id |-> task_id, item_id |-> it.item_id,
                  qty_missing |-> it.qty_missing, reason |-> it.reason,
                  restocked |-> FALSE, restocked_by |-> NoneStr])

\* inventory_check_rows that looks the row up among resolved rows as well
inventory_check_rows_any(rtis, task_id, it) ==
    LET found == {r \in 1..Len(rtis) :
                     rtis[r].task_id = task_id /\ rtis[r].item_id = it.item_id}
    IN  IF found = {}
        THEN Append(rtis, [task_id |-> task_id, item_id |-> it.item_id,
                           qty_missing |-> it.qty_missing, reason |-> it.reason,
                           restocked |-> FALSE, restocked_by |-> NoneStr])
        ELSE LET existing == MinOf(found)
             IN  [rtis EXCEPT
                    ![existing].reason = IF it.reason # NoneStr THEN it.reason ELSE @,
                    ![existing].qty_missing =
                        IF it.qty_missing # None THEN it.qty_missing ELSE @]

\* the task rows after one entry of payload.items: the unresolved row of
\* (task, item) is updated in place, or a row is inserted when there is none
inventory_check_rows(rtis, task_id, it) ==
    LET found == {r \in UnresolvedOf(rtis, task_id) : rtis[r].item_id = it.item_id}
    IN  IF found = {}
        THEN Append(rtis, [task_id |-> task_id, item_id |-> it.item_id,
                           qty_missing |-> it.qty_missing, reason |-> it.reason,
                           restocked |-> FALSE, restocked_by |-> NoneStr])
        ELSE LET existing == MinOf(found)
             IN  [rtis EXCEPT
                    ![existing].reason = IF it.reason # NoneStr THEN it.reason ELSE @,
                    ![existing].qty_missing =
                        IF it.qty_missing # None THEN it.qty_missing ELSE @]

\* the loop over payload.items; st = [ok, trayItems, restockTaskItems] is the
\* session's view of the two tables, ok = FALSE once an item is not found.
RECURSIVE inventory_check_items(_, _, _, _)
inventory_check_items(tray_id, task_id, its, st) ==
    IF its = <<>> \/ ~st.ok THEN st
    ELSE
      LET it == Head(its)
      IN  IF ~(it.item_id \in 1..Len(st.trayItems)
               /\ st.trayItems[it.item_id].tray_id = tray_id)
          THEN [st EXCEPT !.ok = FALSE]
          ELSE
            LET item   == st.trayItems[it.item_id]
                items1 == IF it.qty_used # None /\ it.qty_used > 0
                          THEN [st.trayItems EXCEPT ![it.item_id].qty_on_hand =
                                    Max(0, OrZero(item.qty_on_hand) - it.qty_used)]
                          ELSE st.trayItems
                rtis1  == inventory_check_rows(st.restockTaskItems, task_id, it)
            IN  inventory_check_items(tray_id, task_id, Tail(its),
                    [ok |-> TRUE, trayItems |-> items1, restockTaskItems |-> rtis1])

\* inventory_check_new_num that prefers the automatic suggestion to the caller's
inventory_check_new_num_auto_first(p) ==
    LET auto_suggest == auto_escalation_suggestion(
                            PyBool(p.has_assigned_case_within_72h),
                            OrZeroF(p.case_count_per_week),
                            OrZeroF(p.tray_avg_weekly),
                            PyBool(p.any_critical_missing))
    IN  IF auto_suggest # None THEN auto_suggest ELSE p.user_priority_numeric

\* the numeric signal handed to the merge (new_num)
inventory_check_new_num(p) ==
    LET auto_suggest == auto_escalation_suggestion(
                            PyBool(p.has_assigned_case_within_72h),
                            OrZeroF(p.case_count_per_week),
                            OrZeroF(p.tray_avg_weekly),
                            PyBool(p.any_critical_missing))
    IN  IF p.user_priority_numeric # None THEN p.user_priority_numeric ELSE auto_suggest

inventory_check_new_partial(p) ==
    IF p.user_priority_partial # NoneStr THEN PyBool(p.user_priority_partial) ELSE FALSE

\* inventory_check_tray without `tray.status = TrayStatus.needs_restock`
inventory_check_tray_keeps_status(tray, p) ==
    LET merged == apply_priority_non_downgrade(tray.priority_numeric, tray.priority_partial,
                      inventory_check_new_num(p), inventory_check_new_partial(p))
        t1 == [tray EXCEPT
                 !.last_seen_lat = p.gps.lat,
                 !.last_seen_lng = p.gps.lng,
                 !.priority_numeric = merged[1],
                 !.priority_partial = merged[2]]
    IN  [t1 EXCEPT !.color =
                 map_color(t1.priority_numeric, t1.priority_partial, t1.status = ready)]

\* the tray row after the handler's assignments
inventory_check_tray(tray, p) ==
    LET merged == apply_priority_non_downgrade(tray.priority_numeric, tray.priority_partial,
                      inventory_check_new_num(p), inventory_check_new_partial(p))
        t1 == [tray EXCEPT
                 !.status = needs_restock,
                 !.last_seen_lat = p.gps.lat,
                 !.last_seen_lng = p.gps.lng,
                 !.priority_numeric = merged[1],
                 !.priority_partial = merged[2]]
        t2 == [t1 EXCEPT !.color =
                 map_color(t1.priority_numeric, t1.priority_partial, t1.status = ready)]
    IN  [t2 EXCEPT !.last_location_type =
                 IF p.location_type # NoneStr THEN p.location_type ELSE @]

\* the handler from the loop over payload.items to the commit, ens being what
\* ensure_open_restock_task returned; an item that is not the tray's raises
\* 400 and the session's writes are rolled back
inventory_check_write(p, ens) ==
    LET st == inventory_check_items(p.tray_id, ens[2], p.items,
                  [ok |-> TRUE, trayItems |-> trayItems,
                   restockTaskItems |-> restockTaskItems])
    IN  IF ~st.ok
        THEN Respond("inventory_check", 400) /\ UNCHANGED db
        ELSE /\ Len(events) < MaxEvents
             /\ restockTasks' = ens[1]
             /\ trayItems' = st.trayItems
             /\ restockTaskItems' = st.restockTaskItems
             /\ events' = Append(events, NewEvent(p.tray_id, "inventory_check", p.gps))
             /\ trays' = [trays EXCEPT ![p.tray_id] = inventory_check_tray(@, p)]
             /\ Respond("inventory_check", 200)
             /\ UNCHANGED standaloneItems

inventory_check(p) ==
    IF ~TrayExists(p.tray_id)
    THEN Reject("inventory_check", 404)
    ELSE IF p.items = <<>>
    THEN Reject("inventory_check", 400)
    ELSE /\ inventory_check_write(p, ensure_open_restock_task(restockTasks, p.tray_id))
         /\ UNCHANGED <<conc, notesDb>>

\* -------------------------------------------------------------- full restock
\* restock_full_items that skips the reset of qty_on_hand
restock_full_items_none(items, tray_id) == items

restock_full_items(items, tray_id) ==
    [i \in 1..Len(items) |->
        IF items[i].tray_id = tray_id /\ items[i].qty_expected # None
        THEN [items[i] EXCEPT !.qty_on_hand = items[i].qty_expected]
        ELSE items[i]]

\* every unresolved row of the task becomes resolved
restock_full_rows(rtis, task_id, user_id) ==
    [r \in 1..Len(rtis) |->
        IF rtis[r].task_id = task_id /\ ~rtis[r].restocked
        THEN [rtis[r] EXCEPT !.restocked = TRUE, !.restocked_by = user_id]
        ELSE rtis[r]]

restock_full_tray(tray, p) ==
    LET t1 == [tray EXCEPT !.status = ready,
                           !.priority_numeric = None,
                           !.priority_partial = FALSE]
        t2 == [t1 EXCEPT !.color = map_color(t1.priority_numeric, t1.priority_partial, TRUE)]
    IN  [t2 EXCEPT !.last_location_type =
                 IF p.location_type # NoneStr THEN p.location_type ELSE @]

restock_full(p) ==
    IF ~TrayExists(p.tray_id)
    THEN Reject("restock_full", 404)
    ELSE
      LET found == OpenTasksOf(restockTasks, p.tray_id)
      IN  /\ Len(events) < MaxEvents
          /\ trayItems' = restock_full_items(trayItems, p.tray_id)
          /\ IF found # {}
             THEN LET task == MinOf(found)
                  IN  /\ restockTaskItems' =
                             restock_full_rows(restockTaskItems, task, p.user_id)
                      /\ restockTasks' = [restockTasks EXCEPT ![task].status = closed]
             ELSE UNCHANGED <<restockTasks, restockTaskItems>>
          /\ events' = Append(events, NewEvent(p.tray_id, "restock_full", p.gps))
          /\ trays' = [trays EXCEPT ![p.tray_id] = restock_full_tray(@, p)]
          /\ Respond("restock_full", 200)
          /\ UNCHANGED <<standaloneItems, conc, notesDb>>

\* ----------------------------------------------------------- partial restock
\* int(payload.new_priority) of a literal 1, 2 or 3
PyInt(x) == CASE x = "1" -> 1 [] x = "2" -> 2 [] x = "3" -> 3

\* by_id = {p.item_id: p for p in payload.items}: a later entry replaces an earlier one
InById(its, item_id) == \E k \in 1..Len(its) : its[k].item_id = item_id
ById(its, item_id) ==
    its[CHOOSE k \in 1..Len(its) :
            /\ its[k].item_id = item_id
            /\ \A j \in 1..Len(its) : its[j].item_id = item_id => j <= k]

\* restock_partial_qty without the cap at qty_expected
restock_partial_qty_uncapped(item, qty_restocked) ==
    OrZero(item.qty_on_hand) + qty_restocked

\* the on-hand count of an item after qty_restocked > 0 has been added
restock_partial_qty(item, qty_restocked) ==
    LET current_qty == OrZero(item.qty_on_hand)
    IN  IF item.qty_expected # None
        THEN Min(current_qty + qty_restocked, item.qty_expected)
        ELSE current_qty + qty_restocked

\* the loop that adds qty_restocked to qty_on_hand, entry by entry
RECURSIVE restock_partial_items(_, _, _)
restock_partial_items(items, tray_id, its) ==
    IF its = <<>> THEN items
    ELSE
      LET ip == Head(its)
          items1 ==
            IF ip.item_id \in 1..Len(items) /\ items[ip.item_id].tray_id = tray_id
               /\ ip.qty_restocked # None /\ ip.qty_restocked > 0
            THEN [items EXCEPT ![ip.item_id].qty_on_hand =
                     restock_partial_qty(items[ip.item_id], ip.qty_restocked)]
            ELSE items
      IN  restock_partial_items(items1, tray_id, Tail(its))

\* restock_partial_rows resolving every unresolved row of the task
restock_partial_rows_all(rtis, task_id, its, user_id) ==
    [r \in 1..Len(rtis) |->
        IF rtis[r].task_id = task_id /\ ~rtis[r].restocked
        THEN [rtis[r] EXCEPT !.restocked = TRUE, !.restocked_by = user_id]
        ELSE rtis[r]]

\* the loop over open_items: a row whose item id is in the request is resolved
restock_partial_rows(rtis, task_id, its, user_id) ==
    [r \in 1..Len(rtis) |->
        IF rtis[r].task_id = task_id /\ ~rtis[r].restocked /\ InById(its, rtis[r].item_id)
        THEN LET sel == ById(its, rtis[r].item_id)
             IN  [rtis[r] EXCEPT
                    !.restocked = TRUE,
                    !.restocked_by = user_id,
                    !.qty_missing = IF sel.qty_restocked # None
                                    THEN Max(0, OrZero(@) - sel.qty_restocked)
                                    ELSE @]
        ELSE rtis[r]]

\* restock_partial_priority in which "partial" sets the flag whatever remains
restock_partial_priority_flag(new_priority, remaining_open) ==
    IF new_priority = "partial"
    THEN <<None, TRUE>>
    ELSE <<PyInt(new_priority), FALSE>>

\* <<new_num, new_partial>> from payload.new_priority and remaining_open
restock_partial_priority(new_priority, remaining_open) ==
    IF new_priority = "partial"
    THEN <<None, remaining_open # {}>>
    ELSE <<PyInt(new_priority), FALSE>>

\* restock_partial_tray that leaves the tray in needs_restock whatever remains
restock_partial_tray_needs_restock(tray, p, remaining_open) ==
    LET prio == restock_partial_priority(p.new_priority, remaining_open)
        t1 == [tray EXCEPT
                 !.status = needs_restock,
                 !.priority_numeric = prio[1],
                 !.priority_partial = prio[2]]
        t2 == [t1 EXCEPT !.color =
                 map_color(t1.priority_numeric, t1.priority_partial, t1.status = ready)]
    IN  [t2 EXCEPT !.last_location_type =
                 IF p.location_type # NoneStr THEN p.location_type ELSE @]

restock_partial_tray(tray, p, remaining_open) ==
    LET prio == restock_partial_priority(p.new_priority, remaining_open)
        t1 == [tray EXCEPT
                 !.status = IF remaining_open # {} THEN needs_restock ELSE ready,
                 !.priority_numeric = prio[1],
                 !.priority_partial = prio[2]]
        t2 == [t1 EXCEPT !.color =
                 map_color(t1.priority_numeric, t1.priority_partial, t1.status = ready)]
    IN  [t2 EXCEPT !.last_location_type =
                 IF p.location_type # NoneStr THEN p.location_type ELSE @]

\* the handler from by_id to the commit, ens being what
\* ensure_open_restock_task returned
restock_partial_write(p, ens) ==
    LET task  == ens[2]
        rtis1 == restock_partial_rows(restockTaskItems, task, p.items, p.user_id)
        remaining_open == UnresolvedOf(rtis1, task)
    IN  /\ Len(events) < MaxEvents
        /\ trayItems' = restock_partial_items(trayItems, p.tray_id, p.items)
        /\ restockTaskItems' = rtis1
        /\ events' = Append(events, NewEvent(p.tray_id, "restock_partial", p.gps))
        /\ trays' = [trays EXCEPT ![p.tray_id] = restock_partial_tray(@, p, remaining_open)]
        /\ restockTasks' = close_restock_task_if_empty(ens[1], rtis1, p.tray_id)
        /\ Respond("restock_partial", 200)
        /\ UNCHANGED standaloneItems

\* restock_partial without the test for an empty item list
restock_partial_accepts_empty(p) ==
    IF ~TrayExists(p.tray_id)
    THEN Reject("restock_partial", 404)
    ELSE /\ restock_partial_write(p, ensure_open_restock_task(restockTasks, p.tray_id))
         /\ UNCHANGED <<conc, notesDb>>

restock_partial(p) ==
    IF ~TrayExists(p.tray_id)
    THEN Reject("restock_partial", 404)
    ELSE IF p.items = <<>>
    THEN Reject("restock_partial", 400)
    ELSE /\ restock_partial_write(p, ensure_open_restock_task(restockTasks, p.tray_id))
         /\ UNCHANGED <<conc, notesDb>>

\* ------------------------------------------------------ concurrent requests
\* The handlers are plain `def` endpoints, which the framework runs on worker
\* threads, and every Session shares the engine's one StaticPool connection.
\* A call of worker w is taken in two steps: the handler up to the SELECT of
\* ensure_open_restock_task, whose result the worker keeps in local[w], and
\* the handler from there (the INSERT of a task when the SELECT found none,
\* the body, the commit).  Another worker's steps may fall between the two.
Workers == {1, 2}
Idle == "idle"
NoLocal == <<>>

call_select(w, op, p) ==
    /\ pc[w] = Idle
    /\ IF ~TrayExists(p.tray_id)
       THEN Respond(op, 404) /\ UNCHANGED <<db, conc, notesDb>>
       ELSE IF p.items = <<>>
       THEN Respond(op, 400) /\ UNCHANGED <<db, conc, notesDb>>
       ELSE /\ pc' = [pc EXCEPT ![w] = op]
            /\ local' = [local EXCEPT ![w] =
                   [p |-> p,
                    task |-> ensure_open_restock_task_select(restockTasks, p.tray_id)]]
            /\ UNCHANGED <<db, response, conn, notesDb>>

call_return(w) ==
    /\ pc' = [pc EXCEPT ![w] = Idle]
    /\ local' = [local EXCEPT ![w] = NoLocal]
    /\ UNCHANGED <<conn, notesDb>>

inventory_check_select(w, p) == call_select(w, "inventory_check", p)

inventory_check_finish(w) ==
    /\ pc[w] = "inventory_check"
    /\ inventory_check_write(local[w].p,
           ensure_open_restock_task_create(restockTasks, local[w].p.tray_id, local[w].task))
    /\ call_return(w)

restock_partial_select(w, p) == call_select(w, "restock_partial", p)

restock_partial_finish(w) ==
    /\ pc[w] = "restock_partial"
    /\ restock_partial_write(local[w].p,
           ensure_open_restock_task_create(restockTasks, local[w].p.tray_id, local[w].task))
    /\ call_return(w)

\* --------------------------------------------------------- standalone items
\* The inventory-check and partial-restock handlers of a standalone item take
\* `payload: BaseModel` and read it with payload.__dict__.get(key): d is that
\* dictionary, an absent key being None (NoneStr for new_priority and
\* location_type, a GPS of None for gps, whose default {} has no lat or lng).
StandaloneExists(item_id) ==
    item_id \in 1..Len(standaloneItems) /\ standaloneItems[item_id].user_id = USER_ID

\* payload.__dict__.get(key, 0)
GetOrZero(x) == IF x = None THEN 0 ELSE x

create_standalone_item(p) ==
    /\ Len(standaloneItems) < MaxStandalone
    /\ standaloneItems' = Append(standaloneItems,
          [user_id |-> USER_ID, status |-> ready,
           priority_numeric |-> None, priority_partial |-> FALSE, color |-> COLOR_GREEN,
           qty_expected |-> p.qty_expected, qty_on_hand |-> p.qty_on_hand,
           last_seen_lat |-> None, last_seen_lng |-> None, last_location_type |-> NoneStr])
    /\ UNCHANGED <<trays, trayItems, restockTasks, restockTaskItems, events, response, conc, notesDb>>

dropoff_standalone_item(item, p) ==
    LET i1 == [item EXCEPT
                 !.status = in_location,
                 !.last_seen_lat = p.gps.lat,
                 !.last_seen_lng = p.gps.lng,
                 !.last_location_type = p.location_type]
    IN  [i1 EXCEPT !.color =
                 map_color(i1.priority_numeric, i1.priority_partial, i1.status = ready)]

dropoff_standalone(item_id, p) ==
    IF ~StandaloneExists(item_id)
    THEN Reject("dropoff_standalone", 404)
    ELSE /\ standaloneItems' = [standaloneItems EXCEPT
                                   ![item_id] = dropoff_standalone_item(@, p)]
         /\ Respond("dropoff_standalone", 200)
         /\ UNCHANGED <<trays, trayItems, restockTasks, restockTaskItems, events, conc, notesDb>>

inventory_check_standalone_item(item, d) ==
    LET qty_used == GetOrZero(d.qty_used)
        i1 == [item EXCEPT
                 !.qty_on_hand = IF qty_used > 0 THEN Max(0, OrZero(@) - qty_used) ELSE @,
                 !.status = needs_restock,
                 !.last_seen_lat = d.gps.lat,
                 !.last_seen_lng = d.gps.lng,
                 !.priority_numeric =
                     IF d.user_priority_numeric # None /\ d.user_priority_numeric # 0
                     THEN d.user_priority_numeric ELSE @]
        i2 == [i1 EXCEPT !.color =
                 map_color(i1.priority_numeric, i1.priority_partial, i1.status = ready)]
    IN  [i2 EXCEPT !.last_location_type =
                 IF d.location_type # NoneStr THEN d.location_type ELSE @]

inventory_check_standalone(item_id, d) ==
    IF ~StandaloneExists(item_id)
    THEN Reject("inventory_check_standalone", 404)
    ELSE /\ Len(events) < MaxEvents
         /\ events' = Append(events, NewEvent(0, "inventory_check_standalone", d.gps))
         /\ standaloneItems' = [standaloneItems EXCEPT
                                   ![item_id] = inventory_check_standalone_item(@, d)]
         /\ Respond("inventory_check_standalone", 200)
         /\ UNCHANGED <<trays, trayItems, restockTasks, restockTaskItems, conc, notesDb>>

restock_full_standalone_item(item, p) ==
    LET i1 == [item EXCEPT
                 !.qty_on_hand = IF item.qty_expected # None THEN item.qty_expected ELSE @,
                 !.status = ready,
                 !.priority_numeric = None,
                 !.priority_partial = FALSE]
        i2 == [i1 EXCEPT !.color = map_color(i1.priority_numeric, i1.priority_partial, TRUE)]
    IN  [i2 EXCEPT !.last_location_type =
                 IF p.location_type # NoneStr THEN p.location_type ELSE @]

restock_full_standalone(item_id, p) ==
    IF ~StandaloneExists(item_id)
    THEN Reject("restock_full_standalone", 404)
    ELSE /\ standaloneItems' = [standaloneItems EXCEPT
                                   ![item_id] = restock_full_standalone_item(@, p)]
         /\ Respond("restock_full_standalone", 200)
         /\ UNCHANGED <<trays, trayItems, restockTasks, restockTaskItems, events, conc, notesDb>>

\* qty_on_hand after the "Update quantity" block
restock_partial_standalone_qty(item, d) ==
    LET qty_restocked == GetOrZero(d.qty_restocked)
        current_qty == OrZero(item.qty_on_hand)
    IN  IF qty_restocked > 0
        THEN IF item.qty_expected # None
             THEN Min(current_qty + qty_restocked, item.qty_expected)
             ELSE current_qty + qty_restocked
        ELSE item.qty_on_hand

\* `item.qty_expected and item.qty_on_hand >= item.qty_expected`
restock_partial_standalone_full(item, qty) ==
    item.qty_expected # None /\ item.qty_expected # 0 /\ qty >= item.qty_expected

\* the comparison of None with an int, and int(None), raise TypeError
restock_partial_standalone_raises(item, d) ==
    LET qty == restock_partial_standalone_qty(item, d)
    IN  IF item.qty_expected # None /\ item.qty_expected # 0
        THEN qty = None \/ (qty < item.qty_expected /\ d.new_priority = NoneStr)
        ELSE d.new_priority = NoneStr

restock_partial_standalone_item(item, d) ==
    LET qty == restock_partial_standalone_qty(item, d)
        i1  == [item EXCEPT !.qty_on_hand = qty]
        i2  == IF restock_partial_standalone_full(item, qty)
               THEN [i1 EXCEPT !.status = ready,
                               !.priority_numeric = None,
                               !.priority_partial = FALSE]
               ELSE IF d.new_priority = "partial"
               THEN [i1 EXCEPT !.status = needs_restock,
                               !.priority_partial = TRUE,
                               !.priority_numeric = None]
               ELSE [i1 EXCEPT !.status = needs_restock,
                               !.priority_numeric = PyInt(d.new_priority),
                               !.priority_partial = FALSE]
        i3  == [i2 EXCEPT !.color =
                 map_color(i2.priority_numeric, i2.priority_partial, i2.status = ready)]
    IN  [i3 EXCEPT !.last_location_type =
                 IF d.location_type # NoneStr THEN d.location_type ELSE @]

restock_partial_standalone(item_id, d) ==
    IF ~StandaloneExists(item_id)
    THEN Reject("restock_partial_standalone", 404)
    ELSE IF restock_partial_standalone_raises(standaloneItems[item_id], d)
    THEN Reject("restock_partial_standalone", 500)
    ELSE /\ restock_partial_standalone_qty(standaloneItems[item_id], d) <= MaxQty
         /\ standaloneItems' = [standaloneItems EXCEPT
                                   ![item_id] = restock_partial_standalone_item(@, d)]
         /\ Respond("restock_partial_standalone", 200)
         /\ UNCHANGED <<trays, trayItems, restockTasks, restockTaskItems, events, conc, notesDb>>

\* ------------------------------------------------------- notes and their pins
\* Doctor, Case, Note and NotePin rows are deleted as well as inserted: the
\* tables are sets of rows that carry their id.
InitNotes ==
    /\ doctors = {}
    /\ cases = {}
    /\ notes = {}
    /\ notePins = {}

\* the id SQLite gives to a new row: one more than the largest id in the table
NextId(table) ==
    IF table = {} THEN 1
    ELSE (CHOOSE x \in {r.id : r \in table} : \A r \in table : r.id <= x) + 1

\* session.get(Model, id) and the test `not row or row.user_id != USER_ID`
RowExists(table, id) == \E r \in table : r.id = id /\ r.user_id = USER_ID

\* select(NotePin).where(entity_type == type, entity_id == id)
PinsOf(pins, type, id) == {pin \in pins : pin.entity_type = type /\ pin.entity_id = id}

\* the pin the select returns first: SQLite reads the rows in the order of their ids
FirstPin(pins) == CHOOSE pin \in pins : \A other \in pins : pin.id <= other.id

create_doctor(p) ==
    /\ NextId(doctors) <= MaxDoctors
    /\ doctors' = doctors \cup {[id |-> NextId(doctors), user_id |-> USER_ID, name |-> p.name]}
    /\ Respond("create_doctor", 200)
    /\ UNCHANGED <<db, conc, cases, notes, notePins>>

create_case(p) ==
    /\ NextId(cases) <= MaxCases
    /\ cases' = cases \cup {[id |-> NextId(cases), user_id |-> USER_ID, tray_id |-> p.tray_id]}
    /\ Respond("create_case", 200)
    /\ UNCHANGED <<db, conc, doctors, notes, notePins>>

\* the NotePin rows of one `for` loop of create_note, before they get their ids
create_note_pins(type, ids) ==
    [k \in 1..Len(ids) |-> [entity_type |-> type, entity_id |-> ids[k]]]

\* a list that is None or empty adds no pin; the empty list stands for both
create_note(p) ==
    LET note_id == NextId(notes)
        added == create_note_pins("tray", p.pin_to_trays)
                    \o create_note_pins("standalone", p.pin_to_standalone)
                    \o create_note_pins("case", p.pin_to_cases)
                    \o create_note_pins("doctor", p.pin_to_doctors)
        first == NextId(notePins)
    IN  /\ note_id <= MaxNotes
        /\ first + Len(added) - 1 <= MaxPins
        /\ notes' = notes \cup {[id |-> note_id, user_id |-> USER_ID]}
        /\ notePins' = notePins \cup
               {[id |-> first + k - 1, note_id |-> note_id,
                 entity_type |-> added[k].entity_type,
                 entity_id |-> added[k].entity_id] : k \in 1..Len(added)}
        /\ Respond("create_note", 200)
        /\ UNCHANGED <<db, conc, doctors, cases>>

pin_note(note_id, p) ==
    IF ~RowExists(notes, note_id)
    THEN Reject("pin_note", 404)
    ELSE IF \E pin \in PinsOf(notePins, p.entity_type, p.entity_id) : pin.note_id = note_id
    THEN Reject("pin_note", 400)
    ELSE /\ NextId(notePins) <= MaxPins
         /\ notePins' = notePins \cup
                {[id |-> NextId(notePins), note_id |-> note_id,
                  entity_type |-> p.entity_type, entity_id |-> p.entity_id]}
         /\ Respond("pin_note", 200)
         /\ UNCHANGED <<db, conc, doctors, cases, notes>>

delete_case(case_id) ==
    IF ~RowExists(cases, case_id)
    THEN Reject("delete_case", 404)
    ELSE /\ notePins' = notePins \ PinsOf(notePins, "case", case_id)
         /\ cases' = {r \in cases : r.id # case_id}
         /\ Respond("delete_case", 200)
         /\ UNCHANGED <<db, conc, doctors, notes>>

\* session.delete(doctor), session.commit() and the return are in the body of
\* `for pin in pins`: they run in the first iteration, after the first pin is
\* deleted; without a pin the loop body never runs and the function returns
\* None, which is answered with 200
delete_doctor(doctor_id) ==
    IF ~RowExists(doctors, doctor_id)
    THEN Reject("delete_doctor", 404)
    ELSE LET pins == PinsOf(notePins, "doctor", doctor_id)
         IN  IF pins = {}
             THEN Respond("delete_doctor", 200) /\ UNCHANGED <<db, conc, notesDb>>
             ELSE /\ notePins' = notePins \ {FirstPin(pins)}
                  /\ doctors' = {r \in doctors : r.id # doctor_id}
                  /\ Respond("delete_doctor", 200)
                  /\ UNCHANGED <<db, conc, cases, notes>>

\* ------------------------------------------------------------ request values
GPS(n) == [lat |-> 40 + n, lng |-> 70 + n]

\* sequences over S of length lo..hi
SeqOfLen(S, lo, hi) == UNION {[1..k -> S] : k \in lo..hi}

CreateTrayRequests == [name : 1..MaxTrays]

\* a seeded item either carries both quantities or neither
CreateTrayItemRequests ==
    {[tray_id |-> t, sku |-> k, qty_expected |-> q, qty_on_hand |-> q] :
        t \in 1..MaxTrays, k \in 1..MaxItems, q \in {None, MaxQty}}

DropoffRequestsOf(tids, gpss, locs, case_ids) ==
    [tray_id : tids, user_id : {USER_ID}, gps : gpss, location_type : locs, case_id : case_ids]

InventoryCheckItemsOf(ids, reasons, missing, used) ==
    [item_id : ids, reason : reasons, qty_missing : missing, qty_used : used]

\* the priority hints of an inventory check
HintsOf(h72, ccpw, avg, crit, upn, upp) ==
    [has_assigned_case_within_72h : h72, case_count_per_week : ccpw, tray_avg_weekly : avg,
     any_critical_missing : crit, user_priority_numeric : upn, user_priority_partial : upp]

InventoryCheckRequestsOf(tids, gpss, lists, hints, locs) ==
    {[tray_id |-> t, user_id |-> USER_ID, gps |-> g, items |-> l,
      has_assigned_case_within_72h |-> h.has_assigned_case_within_72h,
      case_count_per_week |-> h.case_count_per_week,
      tray_avg_weekly |-> h.tray_avg_weekly,
      any_critical_missing |-> h.any_critical_missing,
      user_priority_numeric |-> h.user_priority_numeric,
      user_priority_partial |-> h.user_priority_partial,
      location_type |-> loc] :
        t \in tids, g \in gpss, l \in lists, h \in hints, loc \in locs}

RestockFullRequestsOf(tids, gpss, locs) ==
    [tray_id : tids, user_id : {USER_ID}, gps : gpss, location_type : locs]

RestockPartialItemsOf(ids, restocked) == [item_id : ids, qty_restocked : restocked]

RestockPartialRequestsOf(tids, gpss, lists, prios, locs) ==
    [tray_id : tids, user_id : {USER_ID}, gps : gpss, items : lists,
     new_priority : prios, location_type : locs]

NoHints == HintsOf({NoneStr}, {None}, {None}, {NoneStr}, {None}, {NoneStr})

\* ------------------------------------------------------------ specification
\* the store after SQLModel.metadata.create_all: every table empty
Init ==
    /\ trays = <<>>
    /\ trayItems = <<>>
    /\ restockTasks = <<>>
    /\ restockTaskItems = <<>>
    /\ events = <<>>
    /\ standaloneItems = <<>>
    /\ response = [op |-> "none", code |-> 0]
    /\ pc = <<>>
    /\ local = <<>>
    /\ conn = <<>>
    /\ InitNotes

CreateTray      == \E p \in CreateTrayRequests : create_tray(p)
CreateTrayItem  == \E p \in CreateTrayItemRequests : create_tray_item(p)

\* Spec: the restock-task lifecycle.  Requests name any tray and any items, in
\* lists that may name an item twice; the
\* quantities of a request are left out and the priority inputs are two each.
TaskDropoffRequests == DropoffRequestsOf(1..MaxTrays, {GPS(0)}, {"Hospital"}, {NoneStr})
TaskInventoryCheckRequests ==
    InventoryCheckRequestsOf(1..MaxTrays, {GPS(0)},
        SeqOfLen(InventoryCheckItemsOf(1..MaxItems, {NoneStr}, {None}, {None}), 1, MaxReqItems),
        HintsOf({NoneStr}, {None}, {None}, {NoneStr}, {None, 2}, {NoneStr}), {NoneStr})
TaskRestockFullRequests == RestockFullRequestsOf(1..MaxTrays, {GPS(0)}, {NoneStr})
TaskRestockPartialRequests ==
    RestockPartialRequestsOf(1..MaxTrays, {GPS(0)},
        SeqOfLen(RestockPartialItemsOf(1..MaxItems, {None}), 1, MaxReqItems),
        {"partial", "2"}, {NoneStr})

Dropoff         == \E p \in TaskDropoffRequests : log_dropoff(p)
InventoryCheck  == \E p \in TaskInventoryCheckRequests : inventory_check(p)
RestockFull     == \E p \in TaskRestockFullRequests : restock_full(p)
RestockPartial  == \E p \in TaskRestockPartialRequests : restock_partial(p)

Next ==
    \/ CreateTray
    \/ CreateTrayItem
    \/ Dropoff
    \/ InventoryCheck
    \/ RestockFull
    \/ RestockPartial

Spec == Init /\ [][Next]_vars


\* SpecPrio: the priority engine in the lifecycle.  Every priority input of a
\* request is drawn; a tray is seeded with one item and a request names one
\* item or none.
OptBool == {NoneStr, "True", "False"}
PrioCreateTrayItemRequests ==
    {[tray_id |-> t, sku |-> 1, qty_expected |-> None, qty_on_hand |-> None] : t \in 1..MaxTrays}
PrioInventoryCheckRequests ==
    InventoryCheckRequestsOf(1..MaxTrays, {GPS(0)},
        SeqOfLen(InventoryCheckItemsOf(1..MaxItems, {NoneStr}, {None}, {None}), 0, 1),
        HintsOf({NoneStr}, {None}, {None}, {NoneStr, "True"}, {None, 1, 2, 3}, OptBool),
        {NoneStr})
PrioRestockPartialRequests ==
    RestockPartialRequestsOf(1..MaxTrays, {GPS(0)},
        SeqOfLen(RestockPartialItemsOf(1..MaxItems, {None}), 0, 1),
        {"partial", "1", "2", "3"}, {NoneStr})

\* a dropoff away from where the checks are made, with and without a case id
PrioDropoffRequests == DropoffRequestsOf(1..MaxTrays, {GPS(1)}, {"Hospital"}, {NoneStr, "C-1"})

PrioCreateTrayItem == \E p \in PrioCreateTrayItemRequests : create_tray_item(p)
PrioDropoff        == \E p \in PrioDropoffRequests : log_dropoff(p)
PrioInventoryCheck == \E p \in PrioInventoryCheckRequests : inventory_check(p)
PrioRestockPartial == \E p \in PrioRestockPartialRequests : restock_partial(p)

NextPrio ==
    \/ CreateTray
    \/ PrioCreateTrayItem
    \/ PrioDropoff
    \/ PrioInventoryCheck
    \/ RestockFull
    \/ PrioRestockPartial

SpecPrio == Init /\ [][NextPrio]_vars

\* SpecQty: the quantity bookkeeping.  Every quantity of a request is drawn; a
\* request names one item and carries one priority input.  The item of sku 1 is
\* seeded with both quantities, any other item with neither.
QtyCreateTrayItemRequests ==
    {[tray_id |-> t, sku |-> k,
      qty_expected |-> IF k = 1 THEN MaxQty ELSE None,
      qty_on_hand |-> IF k = 1 THEN MaxQty ELSE None] : t \in 1..MaxTrays, k \in 1..MaxItems}
QtyInventoryCheckRequests ==
    InventoryCheckRequestsOf(1..MaxTrays, {GPS(0)},
        SeqOfLen(InventoryCheckItemsOf(1..MaxItems, {NoneStr}, {None, MaxQty}, {None} \cup 0..1),
                 1, 1),
        HintsOf({NoneStr}, {None}, {None}, {NoneStr}, {2}, {NoneStr}), {NoneStr})
QtyRestockPartialRequests ==
    RestockPartialRequestsOf(1..MaxTrays, {GPS(0)},
        SeqOfLen(RestockPartialItemsOf(1..MaxItems, {None} \cup 0..1), 1, 1),
        {"partial"}, {NoneStr})

QtyCreateTrayItem == \E p \in QtyCreateTrayItemRequests : create_tray_item(p)
QtyInventoryCheck == \E p \in QtyInventoryCheckRequests : inventory_check(p)
QtyRestockPartial == \E p \in QtyRestockPartialRequests : restock_partial(p)

NextQty ==
    \/ CreateTray
    \/ QtyCreateTrayItem
    \/ Dropoff
    \/ QtyInventoryCheck
    \/ RestockFull
    \/ QtyRestockPartial

SpecQty == Init /\ [][NextQty]_vars

\* SpecColor: the colour of trays and of standalone items.  A run works on
\* trays or on standalone items (no handler of the one reads or writes the
\* other's table); every priority input is drawn.
NoGPS == [lat |-> None, lng |-> None]
CreateStandaloneItemRequests == [qty_expected : {None, MaxQty}, qty_on_hand : {None, 0, MaxQty}]
StandaloneInventoryCheckDicts ==
    [qty_used : {None, 1}, gps : {NoGPS, GPS(0)}, user_priority_numeric : {None, 1, 2, 3},
     location_type : {NoneStr, "Hospital"}]
StandaloneRestockPartialDicts ==
    [qty_restocked : {None, 1}, new_priority : {NoneStr, "partial", "1", "2", "3"},
     location_type : {NoneStr, "Hospital"}]

CreateStandalone ==
    \E p \in CreateStandaloneItemRequests : create_standalone_item(p)
DropoffStandalone ==
    \E i \in 1..MaxStandalone : \E p \in TaskDropoffRequests : dropoff_standalone(i, p)
InventoryCheckStandalone ==
    \E i \in 1..MaxStandalone : \E d \in StandaloneInventoryCheckDicts :
        inventory_check_standalone(i, d)
RestockFullStandalone ==
    \E i \in 1..MaxStandalone : \E p \in TaskRestockFullRequests : restock_full_standalone(i, p)
RestockPartialStandalone ==
    \E i \in 1..MaxStandalone : \E d \in StandaloneRestockPartialDicts :
        restock_partial_standalone(i, d)

NextColor ==
    \/ standaloneItems = <<>> /\ CreateTray
    \/ standaloneItems = <<>> /\ PrioCreateTrayItem
    \/ standaloneItems = <<>> /\ Dropoff
    \/ standaloneItems = <<>> /\ PrioInventoryCheck
    \/ standaloneItems = <<>> /\ RestockFull
    \/ standaloneItems = <<>> /\ PrioRestockPartial
    \/ trays = <<>> /\ CreateStandalone
    \/ trays = <<>> /\ DropoffStandalone
    \/ trays = <<>> /\ InventoryCheckStandalone
    \/ trays = <<>> /\ RestockFullStandalone
    \/ trays = <<>> /\ RestockPartialStandalone

SpecColor == Init /\ [][NextColor]_vars

\* SpecConc: two workers serve inventory checks and partial restocks; the seed
\* calls run between their steps.
ConcInventoryCheckRequests ==
    InventoryCheckRequestsOf(1..MaxTrays, {GPS(0)},
        SeqOfLen(InventoryCheckItemsOf(1..MaxItems, {NoneStr}, {None}, {None}), 1, 1),
        HintsOf({NoneStr}, {None}, {None}, {NoneStr}, {None, 2}, {NoneStr}), {NoneStr})
ConcRestockPartialRequests ==
    RestockPartialRequestsOf(1..MaxTrays, {GPS(0)},
        SeqOfLen(RestockPartialItemsOf(1..MaxItems, {None}), 1, 1),
        {"partial", "2"}, {NoneStr})

InitConc ==
    /\ trays = <<>>
    /\ trayItems = <<>>
    /\ restockTasks = <<>>
    /\ restockTaskItems = <<>>
    /\ events = <<>>
    /\ standaloneItems = <<>>
    /\ response = [op |-> "none", code |-> 0]
    /\ pc = [w \in Workers |-> Idle]
    /\ local = [w \in Workers |-> NoLocal]
    /\ conn = <<>>
    /\ InitNotes

InventoryCheckSelect ==
    \E w \in Workers : \E p \in ConcInventoryCheckRequests : inventory_check_select(w, p)
InventoryCheckFinish == \E w \in Workers : inventory_check_finish(w)
RestockPartialSelect ==
    \E w \in Workers : \E p \in ConcRestockPartialRequests : restock_partial_select(w, p)
RestockPartialFinish == \E w \in Workers : restock_partial_finish(w)

NextConc ==
    \/ CreateTray
    \/ PrioCreateTrayItem
    \/ InventoryCheckSelect
    \/ InventoryCheckFinish
    \/ RestockPartialSelect
    \/ RestockPartialFinish

SpecConc == InitConc /\ [][NextConc]_vars

\* SpecShared: two workers serve inventory checks over the one connection that
\* StaticPool hands to every Session.  The tables are what a statement on the
\* connection reads: committed rows and the rows any session has flushed.
\* conn.committed is the store as of the last COMMIT and conn.flushed[w] says
\* that the open transaction holds a write of worker w's call.  A COMMIT or a
\* ROLLBACK a session issues acts on the connection, so on every session's
\* writes; a session that ends returns the connection, which rolls back.
\* A call is taken in three steps: to the SELECT of ensure_open_restock_task,
\* its INSERT and flush, and the rest of the handler to its commit or rollback.
Tables(t1, t2, t3, t4, t5, t6) ==
    /\ trays' = t1
    /\ trayItems' = t2
    /\ restockTasks' = t3
    /\ restockTaskItems' = t4
    /\ events' = t5
    /\ standaloneItems' = t6

NoneFlushed == [w \in Workers |-> FALSE]

\* ROLLBACK on the connection
shared_rollback ==
    /\ Tables(conn.committed[1], conn.committed[2], conn.committed[3],
              conn.committed[4], conn.committed[5], conn.committed[6])
    /\ conn' = [conn EXCEPT !.flushed = NoneFlushed]

shared_select(w, p) ==
    /\ pc[w] = Idle
    /\ IF ~TrayExists(p.tray_id)
       THEN Respond("inventory_check", 404) /\ shared_rollback
            /\ UNCHANGED <<pc, local, notesDb>>
       ELSE IF p.items = <<>>
       THEN Respond("inventory_check", 400) /\ shared_rollback
            /\ UNCHANGED <<pc, local, notesDb>>
       ELSE /\ pc' = [pc EXCEPT ![w] = "selected"]
            /\ local' = [local EXCEPT ![w] =
                   [p |-> p,
                    task |-> ensure_open_restock_task_select(restockTasks, p.tray_id)]]
            /\ UNCHANGED <<db, response, conn, notesDb>>

shared_insert(w) ==
    /\ pc[w] = "selected"
    /\ LET ens == ensure_open_restock_task_create(restockTasks, local[w].p.tray_id,
                      local[w].task)
       IN  /\ restockTasks' = ens[1]
           /\ local' = [local EXCEPT ![w].task = ens[2]]
           /\ conn' = [conn EXCEPT !.flushed[w] = (local[w].task = None)]
    /\ pc' = [pc EXCEPT ![w] = "flushed"]
    /\ UNCHANGED <<trays, trayItems, restockTaskItems, events, standaloneItems, response,
                   notesDb>>

\* the rest of the handler: 400 for an item that is not the tray's; the UPDATE
\* of a task row that a rollback has discarded matches no row, which the
\* session raises as an error (500); otherwise the writes and the COMMIT
shared_finish(w) ==
    /\ pc[w] = "flushed"
    /\ LET p  == local[w].p
           st == inventory_check_items(p.tray_id, local[w].task, p.items,
                     [ok |-> TRUE, trayItems |-> trayItems,
                      restockTaskItems |-> restockTaskItems])
       IN  IF ~st.ok
           THEN Respond("inventory_check", 400) /\ shared_rollback
           ELSE IF local[w].task \notin 1..Len(restockTasks)
           THEN Respond("inventory_check", 500) /\ shared_rollback
           ELSE /\ Len(events) < MaxEvents
                /\ Tables([trays EXCEPT ![p.tray_id] = inventory_check_tray(@, p)],
                          st.trayItems, restockTasks, st.restockTaskItems,
                          Append(events, NewEvent(p.tray_id, "inventory_check", p.gps)),
                          standaloneItems)
                /\ conn' = [committed |-> <<trays', trayItems', restockTasks',
                                            restockTaskItems', events', standaloneItems'>>,
                            flushed |-> NoneFlushed]
                /\ Respond("inventory_check", 200)
    /\ pc' = [pc EXCEPT ![w] = Idle]
    /\ local' = [local EXCEPT ![w] = NoLocal]
    /\ UNCHANGED notesDb

\* the store after create_tray(name 1) and create_tray_item(tray 1, sku 1)
SeedTrays ==
    <<LET tray == NewTray(1)
      IN  [tray EXCEPT !.color = map_color(tray.priority_numeric, tray.priority_partial,
                                           tray.status = ready)]>>
SeedTrayItems == <<[tray_id |-> 1, sku |-> 1, qty_expected |-> None, qty_on_hand |-> None]>>

InitShared ==
    /\ trays = SeedTrays
    /\ trayItems = SeedTrayItems
    /\ restockTasks = <<>>
    /\ restockTaskItems = <<>>
    /\ events = <<>>
    /\ standaloneItems = <<>>
    /\ response = [op |-> "none", code |-> 0]
    /\ pc = [w \in Workers |-> Idle]
    /\ local = [w \in Workers |-> NoLocal]
    /\ conn = [committed |-> <<SeedTrays, SeedTrayItems, <<>>, <<>>, <<>>, <<>>>>,
               flushed |-> NoneFlushed]
    /\ InitNotes

SharedSelect ==
    \E w \in Workers : \E p \in ConcInventoryCheckRequests : shared_select(w, p)
SharedInsert == \E w \in Workers : shared_insert(w)
SharedFinish == \E w \in Workers : shared_finish(w)

NextShared ==
    \/ SharedSelect
    \/ SharedInsert
    \/ SharedFinish

SpecShared == InitShared /\ [][NextShared]_vars

\* SpecPure: the pure functions, each applied once.  pc names the function to
\* apply and local holds its arguments; the step that applies it leaves
\* "returned" in pc and, in local, the function, the arguments and the value.
PriorityValues == {None, 1, 2, 3}
MapColorArgs == [priority_numeric : PriorityValues, partial : BOOLEAN, ready : BOOLEAN]
MergeArgs ==
    [existing_numeric : PriorityValues, existing_partial : BOOLEAN,
     new_numeric : PriorityValues, new_partial : BOOLEAN]
NewNumArgs == HintsOf(OptBool, {None, 0, 1, 2}, {None, 0, 1}, OptBool, PriorityValues, {NoneStr})

InitPure ==
    /\ trays = <<>>
    /\ trayItems = <<>>
    /\ restockTasks = <<>>
    /\ restockTaskItems = <<>>
    /\ events = <<>>
    /\ standaloneItems = <<>>
    /\ response = [op |-> "none", code |-> 0]
    /\ conn = <<>>
    /\ InitNotes
    /\ \/ pc = "map_color" /\ local \in MapColorArgs
       \/ pc = "apply_priority_non_downgrade" /\ local \in MergeArgs
       \/ pc = "inventory_check_new_num" /\ local \in NewNumArgs

Returned(fn, out) ==
    /\ pc = fn
    /\ pc' = "returned"
    /\ local' = [fn |-> fn, args |-> local, out |-> out]
    /\ UNCHANGED <<db, response, conn, notesDb>>

ApplyMapColor ==
    Returned("map_color", map_color(local.priority_numeric, local.partial, local.ready))

ApplyMerge ==
    Returned("apply_priority_non_downgrade",
             apply_priority_non_downgrade(local.existing_numeric, local.existing_partial,
                                          local.new_numeric, local.new_partial))

ApplyNewNum ==
    Returned("inventory_check_new_num", inventory_check_new_num(local))

NextPure ==
    \/ ApplyMapColor
    \/ ApplyMerge
    \/ ApplyNewNum

SpecPure == InitPure /\ [][NextPure]_vars

\* SpecNotes: doctors, cases, notes and their pins.  Notes are created with and
\* without pins, and pinned afterwards, to doctors and cases that may or may not
\* exist; doctors and cases are deleted.
CreateDoctorRequests == [name : {1}]
CreateCaseRequests == [tray_id : {None}]
CreateNoteRequests ==
    [pin_to_trays : {<<>>}, pin_to_standalone : {<<>>},
     pin_to_cases : SeqOfLen(1..MaxCases, 0, 1),
     pin_to_doctors : SeqOfLen(1..MaxDoctors, 0, MaxReqItems)]
PinNoteRequests == [entity_type : {"case", "doctor"}, entity_id : 1..MaxDoctors]

CreateDoctor == \E p \in CreateDoctorRequests : create_doctor(p)
CreateCase   == \E p \in CreateCaseRequests : create_case(p)
CreateNote   == \E p \in CreateNoteRequests : create_note(p)
PinNote      == \E n \in 1..MaxNotes : \E p \in PinNoteRequests : pin_note(n, p)
DeleteCase   == \E c \in 1..MaxCases : delete_case(c)
DeleteDoctor == \E d \in 1..MaxDoctors : delete_doctor(d)

NextNotes ==
    \/ CreateDoctor
    \/ CreateCase
    \/ CreateNote
    \/ PinNote
    \/ DeleteCase
    \/ DeleteDoctor

SpecNotes == Init /\ [][NextNotes]_vars

\* ------------------------------------------------------------------ claims
Succeeded(op) == response' = [op |-> op, code |-> 200] /\ events' # events
LastEvent == events[Len(events)]

\* unresolved rows of table rtis under any task of the tray
UnresolvedOfTray(tasks, rtis, tray_id) ==
    {r \in 1..Len(rtis) : ~rtis[r].restocked /\ tasks[rtis[r].task_id].tray_id = tray_id}

\* C1: after any sequence of dropoff, inventory-check, partial-restock and
\* full-restock calls, each run to completion, every tray has at most one
\* RestockTask with status open.
C1_AtMostOneOpenTask ==
    \A t \in 1..Len(trays) : Cardinality(OpenTasksOf(restockTasks, t)) <= 1

\* C1 witness: a tray whose first task was closed and which has an open task again
C1_Witness ==
    \E t \in 1..Len(trays) :
        /\ Cardinality(OpenTasksOf(restockTasks, t)) = 1
        /\ \E k \in 1..Len(restockTasks) :
              restockTasks[k].tray_id = t /\ restockTasks[k].status = closed

\* C6: after every completed tray lifecycle call a RestockTask is closed exactly
\* when it has no RestockTaskItem with restocked = false.
C6_ClosedIffNoUnresolved ==
    \A k \in 1..Len(restockTasks) :
        (restockTasks[k].status = closed) <=> (UnresolvedOf(restockTaskItems, k) = {})

\* C6 witness: a closed task whose rows are all resolved beside an open task
\* that has a resolved and an unresolved row
C6_Witness ==
    \E k, j \in 1..Len(restockTasks) :
        /\ restockTasks[k].status = closed
        /\ \E r \in 1..Len(restockTaskItems) : restockTaskItems[r].task_id = k
        /\ restockTasks[j].status = open
        /\ UnresolvedOf(restockTaskItems, j) # {}
        /\ \E r \in 1..Len(restockTaskItems) :
              restockTaskItems[r].task_id = j /\ restockTaskItems[r].restocked

\* C8: after restock_partial succeeds, if the tray's task still has an
\* unresolved row the tray is needs_restock and that task is still open,
\* otherwise the tray is ready and has no open task; a row is resolved by the
\* call exactly when it was unresolved under the open task and its item id is
\* in the request.
C8_Post(p) ==
    LET t == p.tray_id
        before == OpenTasksOf(restockTasks, t)
        remaining == UnresolvedOfTray(restockTasks', restockTaskItems', t)
    IN  /\ Len(restockTaskItems') = Len(restockTaskItems)
        /\ IF remaining # {}
           THEN /\ trays'[t].status = needs_restock
                /\ \A r \in remaining :
                      restockTasks'[restockTaskItems'[r].task_id].status = open
                /\ OpenTasksOf(restockTasks', t) = before
           ELSE /\ trays'[t].status = ready
                /\ OpenTasksOf(restockTasks', t) = {}
        /\ \A r \in 1..Len(restockTaskItems) :
              (restockTaskItems'[r].restocked /\ ~restockTaskItems[r].restocked)
              <=> (/\ ~restockTaskItems[r].restocked
                   /\ restockTaskItems[r].task_id \in before
                   /\ InById(p.items, restockTaskItems[r].item_id))

C8_RestockPartialPost ==
    [][\A p \in TaskRestockPartialRequests :
          (restock_partial(p) /\ Succeeded("restock_partial")) => C8_Post(p)]_vars

\* C8 witness: a partial restock has resolved one row of the open task and left another
C8_Witness ==
    /\ response = [op |-> "restock_partial", code |-> 200]
    /\ \E t \in 1..Len(trays) : \E k \in OpenTasksOf(restockTasks, t) :
          /\ trays[t].status = needs_restock
          /\ UnresolvedOf(restockTaskItems, k) # {}
          /\ \E r \in 1..Len(restockTaskItems) :
                restockTaskItems[r].task_id = k /\ restockTaskItems[r].restocked

\* C10: after inventory_check succeeds with a non-empty item list on a tray in
\* any prior status, the tray is needs_restock and its single open task has an
\* unresolved row for every item id in the request.
C10_Post(p) ==
    LET t == p.tray_id
        opens == OpenTasksOf(restockTasks', t)
    IN  /\ trays'[t].status = needs_restock
        /\ Cardinality(opens) = 1
        /\ \A k \in 1..Len(p.items) : \E task \in opens :
              \E r \in UnresolvedOf(restockTaskItems', task) :
                  restockTaskItems'[r].item_id = p.items[k].item_id

C10_InventoryCheckPost ==
    [][\A p \in TaskInventoryCheckRequests :
          (inventory_check(p) /\ Succeeded("inventory_check")) => C10_Post(p)]_vars

\* C10 witness: an inventory check has succeeded on a tray that a dropoff had
\* left in_location and on a tray that a restock had left ready
C10_Witness ==
    /\ response = [op |-> "inventory_check", code |-> 200]
    /\ Len(events) >= 3
    /\ events[Len(events)].type = "inventory_check"
    /\ events[Len(events) - 1].type = "dropoff"
    /\ events[Len(events) - 2].type = "restock_full"
    /\ trays[LastEvent.tray_id].status = needs_restock

\* the order of the merge: null lowest, then 1 < 2 < 3
Rank(priority_numeric) == IF priority_numeric = None THEN 0 ELSE priority_numeric

\* the type of the event a step appends, "none" when it appends none
Appended == IF Len(events') = Len(events) + 1 THEN events'[Len(events')].type ELSE "none"

Lowered(t) == Rank(trays'[t].priority_numeric) < Rank(trays[t].priority_numeric)

\* C3 as stated: a dropoff, inventory check or partial restock never leaves
\* priority_numeric lower than before; full restock is the only call that can.
C3_OnlyFullRestockLowers ==
    [][\A t \in 1..Len(trays) : Lowered(t) => Appended = "restock_full"]_vars

\* C3 amended: a dropoff or an inventory check never leaves priority_numeric
\* lower than before; full restock and partial restock are the only calls that can.
C3_OnlyRestockLowers ==
    [][\A t \in 1..Len(trays) :
          Lowered(t) => Appended \in {"restock_full", "restock_partial"}]_vars

\* C3 witness: two inventory checks in a row have left a tray at numeric 3
\* without the partial flag (the second one merged into a numeric priority)
C3_Witness ==
    /\ Len(events) >= 2
    /\ events[Len(events)].type = "inventory_check"
    /\ events[Len(events) - 1].type = "inventory_check"
    /\ events[Len(events)].tray_id = events[Len(events) - 1].tray_id
    /\ trays[LastEvent.tray_id].priority_numeric = 3

\* C4 as stated: in every reachable state a tray with priority_partial = true
\* has priority_numeric = null.
C4_PartialOnlyWithoutNumeric ==
    \A t \in 1..Len(trays) : trays[t].priority_partial => trays[t].priority_numeric = None

\* C9: after restock_partial succeeds the tray's priority is a function of
\* new_priority and of the rows that remain unresolved: "partial" gives
\* (null, true) when rows remain and (null, false) when none remain, a literal
\* n gives (n, false).
C9_Post(p) ==
    LET t == p.tray_id
        remaining == UnresolvedOfTray(restockTasks', restockTaskItems', t)
    IN  <<trays'[t].priority_numeric, trays'[t].priority_partial>> =
            CASE p.new_priority = "partial" -> <<None, remaining # {}>>
              [] p.new_priority = "1" -> <<1, FALSE>>
              [] p.new_priority = "2" -> <<2, FALSE>>
              [] p.new_priority = "3" -> <<3, FALSE>>

C9_RestockPartialPriority ==
    [][\A p \in PrioRestockPartialRequests :
          (restock_partial(p) /\ Succeeded("restock_partial")) => C9_Post(p)]_vars

\* C9 witness: a partial restock has closed the task of a tray and left it at (null, false)
\* after an inventory check that gave it a priority
C9_Witness ==
    /\ response = [op |-> "restock_partial", code |-> 200]
    /\ Len(events) >= 2
    /\ events[Len(events) - 1].type = "inventory_check"
    /\ events[Len(events) - 1].tray_id = LastEvent.tray_id
    /\ trays[LastEvent.tray_id].priority_numeric = None
    /\ ~trays[LastEvent.tray_id].priority_partial
    /\ trays[LastEvent.tray_id].status = ready
    /\ \E r \in 1..Len(restockTaskItems) : restockTaskItems[r].restocked

\* C7: after restock_full succeeds on a tray in any state, every tray item that
\* has a qty_expected has qty_on_hand = qty_expected, every previously
\* unresolved row of the tray's open task is resolved, the tray has no open
\* task, and the tray is ready with priority (null, false) and colour green.
C7_Post(p) ==
    LET t == p.tray_id
    IN  /\ \A i \in 1..Len(trayItems') :
              (trayItems'[i].tray_id = t /\ trayItems'[i].qty_expected # None)
              => trayItems'[i].qty_on_hand = trayItems'[i].qty_expected
        /\ \A k \in OpenTasksOf(restockTasks, t) :
              \A r \in UnresolvedOf(restockTaskItems, k) : restockTaskItems'[r].restocked
        /\ OpenTasksOf(restockTasks', t) = {}
        /\ trays'[t].status = ready
        /\ trays'[t].priority_numeric = None
        /\ ~trays'[t].priority_partial
        /\ trays'[t].color = COLOR_GREEN

C7_RestockFullPost ==
    [][\A p \in TaskRestockFullRequests :
          (restock_full(p) /\ Succeeded("restock_full")) => C7_Post(p)]_vars

\* C7 witness: a full restock has closed a task with two rows on a tray with an
\* item that has an expected quantity and an item that has none
C7_Witness ==
    /\ response = [op |-> "restock_full", code |-> 200]
    /\ LET t == LastEvent.tray_id
       IN  /\ \E i, j \in ItemsOfTray(t) :
                 /\ trayItems[i].qty_expected # None
                 /\ trayItems[i].qty_on_hand = trayItems[i].qty_expected
                 /\ trayItems[j].qty_expected = None
           /\ \E k \in 1..Len(restockTasks) :
                 /\ restockTasks[k].tray_id = t
                 /\ restockTasks[k].status = closed
                 /\ Cardinality({r \in 1..Len(restockTaskItems) :
                        restockTaskItems[r].task_id = k
                        /\ restockTaskItems[r].restocked}) = 2

\* C5: in every committed state the stored colour of every Tray and of every
\* StandaloneItem equals map_color(priority_numeric, priority_partial,
\* status = ready): no create or lifecycle call leaves a stale colour.
C5_ColorNeverStale ==
    /\ \A t \in 1..Len(trays) :
          trays[t].color =
              map_color(trays[t].priority_numeric, trays[t].priority_partial,
                        trays[t].status = ready)
    /\ \A i \in 1..Len(standaloneItems) :
          standaloneItems[i].color =
              map_color(standaloneItems[i].priority_numeric,
                        standaloneItems[i].priority_partial,
                        standaloneItems[i].status = ready)

\* C5 witness: a dropoff has moved a tray that a partial restock had left ready
\* (green) with a numeric priority to in_location, where its colour is no longer green
C5_Witness ==
    /\ Len(events) >= 2
    /\ LastEvent.type = "dropoff"
    /\ events[Len(events) - 1].type = "restock_partial"
    /\ events[Len(events) - 1].tray_id = LastEvent.tray_id
    /\ trays[LastEvent.tray_id].status = in_location
    /\ trays[LastEvent.tray_id].color \in {COLOR_RED, COLOR_ORANGE, COLOR_YELLOW}

\* C2: when two inventory-check or partial-restock calls for the same tray run
\* concurrently, with their lookup-or-create steps interleaved in any order, no
\* reachable state has two restock tasks with status open for that tray.
C2_NoTwoOpenTasksConcurrently ==
    \A a, b \in 1..Len(restockTasks) :
        (/\ restockTasks[a].status = open
         /\ restockTasks[b].status = open
         /\ restockTasks[a].tray_id = restockTasks[b].tray_id) => a = b

\* the request names a tray that does not exist, or an item id that does not
\* exist or is another tray's
NamesMissing(p) ==
    \/ ~TrayExists(p.tray_id)
    \/ \E k \in 1..Len(p.items) :
          ~(/\ p.items[k].item_id \in 1..Len(trayItems)
            /\ trayItems[p.items[k].item_id].tray_id = p.tray_id)

\* C11: an inventory check or a partial restock that names a tray that does
\* not exist, or a sub-item that does not exist or belongs to another tray,
\* fails and leaves every table exactly as it was, also when valid items
\* precede the bad one in the list.
C11_MissingReferenceAborts ==
    [][/\ \A p \in TaskInventoryCheckRequests :
             (inventory_check(p) /\ NamesMissing(p)) =>
                 (response'.code # 200 /\ UNCHANGED db)
       /\ \A p \in TaskRestockPartialRequests :
             (restock_partial(p) /\ NamesMissing(p)) =>
                 (response'.code # 200 /\ UNCHANGED db)]_vars

\* C12: each tray lifecycle call is atomic to every other request: no COMMIT
\* makes durable the writes of a call that is still in progress, so no
\* committed state holds only part of one call's changes.
C12_CommitsWholeCallsOnly ==
    [][conn'.committed # conn.committed =>
          \A v \in Workers : pc'[v] # Idle => ~conn.flushed[v]]_vars

\* the step appends exactly one event, of the given type and for the given
\* tray, after the events there were
AppendsOne(tray_id, type) ==
    /\ Len(events') = Len(events) + 1
    /\ SubSeq(events', 1, Len(events)) = events
    /\ events'[Len(events')].tray_id = tray_id
    /\ events'[Len(events')].type = type

C13_Post(called, p, type) ==
    called => IF response'.code = 200 THEN AppendsOne(p.tray_id, type) ELSE events' = events

\* C13: every successful dropoff, inventory check, full restock and partial
\* restock on a tray appends exactly one Event for that tray, of type dropoff,
\* inventory_check, restock_full and restock_partial respectively; a rejected
\* call appends none, and no call changes or removes an existing Event.
C13_OneEventPerCall ==
    [][/\ \A p \in TaskDropoffRequests : C13_Post(log_dropoff(p), p, "dropoff")
       /\ \A p \in TaskInventoryCheckRequests :
             C13_Post(inventory_check(p), p, "inventory_check")
       /\ \A p \in TaskRestockFullRequests : C13_Post(restock_full(p), p, "restock_full")
       /\ \A p \in TaskRestockPartialRequests :
             C13_Post(restock_partial(p), p, "restock_partial")
       /\ Len(events') >= Len(events)
       /\ SubSeq(events', 1, Len(events)) = events]_vars

\* C13 witness: one event of each of the four types has been appended
C13_Witness ==
    /\ Len(events) = 4
    /\ \A type \in {"dropoff", "inventory_check", "restock_full", "restock_partial"} :
          \E k \in 1..Len(events) : events[k].type = type /\ events[k].tray_id = 1

HasReturned(fn) == pc = "returned" /\ local.fn = fn

\* the larger of two priorities, null being the lowest
Larger(a, b) == IF Rank(a) >= Rank(b) THEN a ELSE b

\* C14: for all existing_numeric and new_numeric in {null, 1, 2, 3} and all
\* partial flags, apply_priority_non_downgrade returns a numeric that is >=
\* existing_numeric (null lowest) and equals the larger of existing_numeric and
\* new_numeric; with new_numeric null and new_partial false it returns the
\* existing pair unchanged.
C14_MergeNeverDowngrades ==
    HasReturned("apply_priority_non_downgrade") =>
        /\ Rank(local.out[1]) >= Rank(local.args.existing_numeric)
        /\ local.out[1] = Larger(local.args.existing_numeric, local.args.new_numeric)
        /\ (local.args.new_numeric = None /\ ~local.args.new_partial) =>
               local.out = <<local.args.existing_numeric, local.args.existing_partial>>

\* C14 witness: the merge of a hint of 2 into an existing 3 has kept 3
C14_Witness ==
    /\ HasReturned("apply_priority_non_downgrade")
    /\ local.args.existing_numeric = 3
    /\ local.args.new_numeric = 2
    /\ local.out[1] = 3

\* C15: for every input (priority_numeric in {null, 1, 2, 3}, partial, ready),
\* map_color returns green when ready is true whatever the other fields are;
\* otherwise red, orange, yellow for numeric 1, 2, 3; otherwise blue when
\* partial is true; otherwise green.
C15_MapColorTable ==
    HasReturned("map_color") =>
        LET a == local.args
        IN  /\ a.ready => local.out = COLOR_GREEN
            /\ (~a.ready /\ a.priority_numeric = 1) => local.out = COLOR_RED
            /\ (~a.ready /\ a.priority_numeric = 2) => local.out = COLOR_ORANGE
            /\ (~a.ready /\ a.priority_numeric = 3) => local.out = COLOR_YELLOW
            /\ (~a.ready /\ a.priority_numeric = None /\ a.partial) => local.out = COLOR_BLUE
            /\ (~a.ready /\ a.priority_numeric = None /\ ~a.partial) => local.out = COLOR_GREEN

\* C15 witness: map_color has returned green for a ready entity of priority 1
C15_Witness ==
    /\ HasReturned("map_color")
    /\ local.args.ready
    /\ local.args.priority_numeric = 1
    /\ local.args.partial
    /\ local.out = COLOR_GREEN

\* the number of true conditions among the three escalation signals, an
\* absent count being read as 0
TrueSignals(a) ==
    Cardinality({c \in {"load", "case", "critical"} :
        \/ c = "load" /\ OrZeroF(a.case_count_per_week) > OrZeroF(a.tray_avg_weekly)
        \/ c = "case" /\ a.has_assigned_case_within_72h = "True"
        \/ c = "critical" /\ a.any_critical_missing = "True"})

\* C16: in an inventory check, the numeric signal passed into the merge is the
\* caller's user_priority_numeric whenever it is supplied; otherwise it is the
\* number of true conditions among (case_count_per_week > tray_avg_weekly,
\* has_assigned_case_within_72h, any_critical_missing), zero true conditions
\* giving null.
C16_SignalIsUserOrScore ==
    HasReturned("inventory_check_new_num") =>
        LET a == local.args
        IN  IF a.user_priority_numeric # None
            THEN local.out = a.user_priority_numeric
            ELSE IF TrueSignals(a) = 0
            THEN local.out = None
            ELSE local.out = TrueSignals(a)

\* C16 witness: with no caller priority, three true conditions have given 3
C16_Witness ==
    /\ HasReturned("inventory_check_new_num")
    /\ local.args.user_priority_numeric = None
    /\ TrueSignals(local.args) = 3
    /\ local.out = 3

\* the on-hand count read with null as 0
OnHand(item) == IF item.qty_on_hand = None THEN 0 ELSE item.qty_on_hand

C17_Used(p) ==
    LET it == p.items[1]
        h  == OnHand(trayItems[it.item_id])
    IN  (it.qty_used # None /\ it.qty_used > 0) =>
            trayItems'[it.item_id].qty_on_hand =
                (IF h - it.qty_used > 0 THEN h - it.qty_used ELSE 0)

C17_Restocked(p) ==
    LET ip == p.items[1]
        i  == ip.item_id
    IN  (/\ i \in 1..Len(trayItems)
         /\ trayItems[i].tray_id = p.tray_id
         /\ ip.qty_restocked # None
         /\ ip.qty_restocked > 0) =>
            LET h == OnHand(trayItems[i])
                e == trayItems[i].qty_expected
            IN  trayItems'[i].qty_on_hand =
                    (IF e # None /\ e < h + ip.qty_restocked THEN e ELSE h + ip.qty_restocked)

\* every item with an expected quantity has 0 <= on-hand <= expected
C17_InRange(items) ==
    \A i \in 1..Len(items) :
        items[i].qty_expected # None =>
            (OnHand(items[i]) >= 0 /\ OnHand(items[i]) <= items[i].qty_expected)

\* C17: for a tray item with on-hand count h (null read as 0), an inventory
\* check reporting qty_used u > 0 sets on-hand to max(0, h - u), and a partial
\* restock reporting qty_restocked q > 0 sets it to min(h + q, qty_expected)
\* when qty_expected is defined and to h + q otherwise; an item that starts
\* with 0 <= on-hand <= expected stays in that range after any lifecycle call.
C17_QuantityArithmetic ==
    [][/\ \A p \in QtyInventoryCheckRequests :
             (inventory_check(p) /\ response'.code = 200) => C17_Used(p)
       /\ \A p \in QtyRestockPartialRequests :
             (restock_partial(p) /\ response'.code = 200) => C17_Restocked(p)
       /\ C17_InRange(trayItems) => C17_InRange(trayItems')]_vars

\* C17 witness: an item expected at MaxQty has been used down and a partial
\* restock has then brought it back to its expected quantity, not beyond
C17_Witness ==
    /\ response = [op |-> "restock_partial", code |-> 200]
    /\ Len(events) >= 3
    /\ events[Len(events) - 1].type = "inventory_check"
    /\ events[Len(events) - 2].type = "restock_partial"
    /\ \E i \in 1..Len(trayItems) :
          /\ trayItems[i].qty_expected = MaxQty
          /\ trayItems[i].qty_on_hand = MaxQty
    /\ \E r \in 1..Len(restockTaskItems) :
          /\ restockTaskItems[r].restocked
          /\ trayItems[restockTaskItems[r].item_id].qty_expected = MaxQty

\* the unresolved rows of a task for one sub-item
UnresolvedFor(rtis, task_id, item_id) ==
    {r \in UnresolvedOf(rtis, task_id) : rtis[r].item_id = item_id}

\* the sub-items a request names
Named(p) == {p.items[k].item_id : k \in 1..Len(p.items)}

\* a successful inventory check inserts one row for each named sub-item that
\* had no unresolved row under the tray's open task, and none for the others
C18_Post(p) ==
    LET open_before == OpenTasksOf(restockTasks, p.tray_id)
        fresh == {i \in Named(p) :
                     \A k \in open_before : UnresolvedFor(restockTaskItems, k, i) = {}}
    IN  /\ Len(restockTaskItems') = Len(restockTaskItems) + Cardinality(fresh)
        /\ \A r \in 1..Len(restockTaskItems) :
              /\ restockTaskItems'[r].task_id = restockTaskItems[r].task_id
              /\ restockTaskItems'[r].item_id = restockTaskItems[r].item_id
              /\ restockTaskItems'[r].restocked = restockTaskItems[r].restocked

\* C18: re-flagging is idempotent on task rows: an inventory check naming a
\* sub-item that already has an unresolved row under the tray's open task
\* updates that row and inserts none, also when the same item id appears twice
\* in one request; so there is at most one unresolved row per (task, sub-item).
C18_ReflaggingIsIdempotent ==
    [][/\ \A p \in TaskInventoryCheckRequests :
             (inventory_check(p) /\ response'.code = 200) => C18_Post(p)
       /\ \A k \in 1..Len(restockTasks') : \A i \in 1..Len(trayItems') :
             Cardinality(UnresolvedFor(restockTaskItems', k, i)) <= 1]_vars

\* C18 witness: two inventory checks in a row have flagged the same sub-item
\* and the open task holds one unresolved row for it
C18_Witness ==
    /\ Len(events) >= 2
    /\ LastEvent.type = "inventory_check"
    /\ events[Len(events) - 1].type = "inventory_check"
    /\ events[Len(events) - 1].tray_id = LastEvent.tray_id
    /\ Len(trayItems) = 1
    /\ \E k \in OpenTasksOf(restockTasks, LastEvent.tray_id) :
          Cardinality(UnresolvedFor(restockTaskItems, k, 1)) = 1
    /\ Len(restockTaskItems) = 1

\* an inventory check on a tray with no open task adds one open task, with a
\* new id, and leaves every existing task as it was
C19_Post(p) ==
    OpenTasksOf(restockTasks, p.tray_id) = {} =>
        /\ Len(restockTasks') = Len(restockTasks) + 1
        /\ restockTasks'[Len(restockTasks')] = [tray_id |-> p.tray_id, status |-> open]
        /\ SubSeq(restockTasks', 1, Len(restockTasks)) = restockTasks

\* C19: a RestockTask whose status has become closed stays closed in every
\* later state; an inventory check on a tray whose tasks are all closed
\* creates a new task with a new id instead of reopening one.
C19_ClosedStaysClosed ==
    [][/\ Len(restockTasks') >= Len(restockTasks)
       /\ \A k \in 1..Len(restockTasks) :
             restockTasks[k].status = closed => restockTasks'[k].status = closed
       /\ \A p \in TaskInventoryCheckRequests :
             (inventory_check(p) /\ response'.code = 200) => C19_Post(p)]_vars

\* C19 witness: an inventory check on a tray whose only task was closed has
\* created a second task, open, next to the closed one
C19_Witness ==
    /\ response = [op |-> "inventory_check", code |-> 200]
    /\ Len(restockTasks) = 2
    /\ restockTasks[1].status = closed
    /\ restockTasks[2].status = open
    /\ restockTasks[1].tray_id = restockTasks[2].tray_id
    /\ \E r \in 1..Len(restockTaskItems) :
          restockTaskItems[r].task_id = 1 /\ restockTaskItems[r].restocked
    /\ UnresolvedOf(restockTaskItems, 2) # {}

\* C20: a RestockTask is created only when an inventory check flags a shortage
\* on a tray that has no open task: full and partial restock calls never
\* create a task, so every RestockTask has at least one RestockTaskItem.
C20_TasksOnlyFromInventoryChecks ==
    [][/\ Len(restockTasks') > Len(restockTasks) => Appended = "inventory_check"
       /\ \A k \in 1..Len(restockTasks') :
             \E r \in 1..Len(restockTaskItems') : restockTaskItems'[r].task_id = k]_vars

\* the task of row r is closed
InClosedTask(r) == restockTasks[restockTaskItems[r].task_id].status = closed

\* flagging a sub-item whose rows are all resolved inserts a new, unresolved row
C21_Reflag(p) ==
    LET i == p.items[1].item_id
    IN  (/\ \E r \in 1..Len(restockTaskItems) :
               restockTaskItems[r].item_id = i /\ restockTaskItems[r].restocked
         /\ \A r \in 1..Len(restockTaskItems) :
               restockTaskItems[r].item_id = i => restockTaskItems[r].restocked) =>
            /\ Len(restockTaskItems') = Len(restockTaskItems) + 1
            /\ restockTaskItems'[Len(restockTaskItems')].item_id = i
            /\ ~restockTaskItems'[Len(restockTaskItems')].restocked

\* a partial restock resolves the unresolved row of the sub-item it names,
\* whatever its qty_restocked, and lowers qty_missing by it, floored at 0
C21_Resolve(p) ==
    LET ip == p.items[1]
    IN  \A k \in OpenTasksOf(restockTasks, p.tray_id) :
            \A r \in UnresolvedOf(restockTaskItems, k) :
                restockTaskItems[r].item_id = ip.item_id =>
                    /\ restockTaskItems'[r].restocked
                    /\ (ip.qty_restocked # None /\ restockTaskItems[r].qty_missing # None) =>
                           restockTaskItems'[r].qty_missing =
                               (IF restockTaskItems[r].qty_missing > ip.qty_restocked
                                THEN restockTaskItems[r].qty_missing - ip.qty_restocked
                                ELSE 0)

\* C21: once a RestockTaskItem has restocked = true no later call changes any
\* of its fields or sets it back to unresolved, and no call changes a row of a
\* closed task; flagging the same sub-item again inserts a new row.  A row
\* resolved by a partial restock is resolved even when qty_restocked is smaller
\* than its qty_missing, which becomes max(0, qty_missing - qty_restocked).
C21_ResolvedRowsAreFrozen ==
    [][/\ Len(restockTaskItems') >= Len(restockTaskItems)
       /\ \A r \in 1..Len(restockTaskItems) :
             (restockTaskItems[r].restocked \/ InClosedTask(r)) =>
                 restockTaskItems'[r] = restockTaskItems[r]
       /\ \A p \in QtyInventoryCheckRequests :
             (inventory_check(p) /\ response'.code = 200) => C21_Reflag(p)
       /\ \A p \in QtyRestockPartialRequests :
             (restock_partial(p) /\ response'.code = 200) => C21_Resolve(p)]_vars

\* C21 witness: a row was resolved by a partial restock of less than its
\* qty_missing, keeping a remainder, and the same sub-item has been flagged
\* again in a new, unresolved row
C21_Witness ==
    \E r, s \in 1..Len(restockTaskItems) :
        /\ r < s
        /\ restockTaskItems[r].item_id = restockTaskItems[s].item_id
        /\ restockTaskItems[r].restocked
        /\ restockTaskItems[r].qty_missing = MaxQty - 1
        /\ ~restockTaskItems[s].restocked

\* the tray of the call carries the call's GPS coordinates after the step
C22_Post(called, p) ==
    (called /\ response'.code = 200) =>
        /\ trays'[p.tray_id].last_seen_lat = p.gps.lat
        /\ trays'[p.tray_id].last_seen_lng = p.gps.lng

\* C22: after every successful tray lifecycle call (dropoff, inventory check,
\* full restock, partial restock) the tray's last_seen_lat and last_seen_lng
\* equal the GPS coordinates of that call, whether or not a location_type was
\* supplied.
C22_LastSeenIsCallGPS ==
    [][/\ \A p \in TaskDropoffRequests : C22_Post(log_dropoff(p), p)
       /\ \A p \in TaskInventoryCheckRequests : C22_Post(inventory_check(p), p)
       /\ \A p \in TaskRestockFullRequests : C22_Post(restock_full(p), p)
       /\ \A p \in TaskRestockPartialRequests : C22_Post(restock_partial(p), p)]_vars

\* a call with an empty item list answers 400 for a tray that exists (404
\* otherwise) and leaves every table as it was
C23_Post(called, p) ==
    (p.items = <<>> /\ called) =>
        /\ response'.code = (IF TrayExists(p.tray_id) THEN 400 ELSE 404)
        /\ UNCHANGED db

\* C23: an inventory check or a partial restock whose item list is empty is
\* rejected as invalid input and changes nothing: no task is created, no
\* quantity, task-item or tray field changes, and no event is appended.
C23_EmptyListRejected ==
    [][/\ \A p \in PrioInventoryCheckRequests : C23_Post(inventory_check(p), p)
       /\ \A p \in PrioRestockPartialRequests : C23_Post(restock_partial(p), p)]_vars

\* C23 witness: a partial restock of an existing tray has been answered 400,
\* which restock_partial gives for an empty item list only
C23_Witness ==
    /\ response = [op |-> "restock_partial", code |-> 400]
    /\ trays # <<>>

\* C24: a standalone inventory check merges the supplied priority with the
\* non-downgrade rule: no successful standalone inventory check lowers the
\* priority_numeric of a standalone item (null lowest, then 1 < 2 < 3).
C24_StandaloneCheckNeverLowers ==
    [][response'.op = "inventory_check_standalone" =>
          \A i \in 1..Len(standaloneItems) :
              Rank(standaloneItems'[i].priority_numeric)
                  >= Rank(standaloneItems[i].priority_numeric)]_vars

\* C25: every tray whose status is ready has priority (null, false).
C25_ReadyHasNoPriority ==
    \A t \in 1..Len(trays) :
        trays[t].status = ready =>
            trays[t].priority_numeric = None /\ ~trays[t].priority_partial

\* C26: a tray that has an open task with at least one unresolved row has status
\* needs_restock: no call, a dropoff in particular, moves it to in_location or
\* ready.
C26_OutstandingIsNeedsRestock ==
    \A r \in 1..Len(restockTaskItems) :
        (~restockTaskItems[r].restocked /\ ~InClosedTask(r)) =>
            trays[restockTasks[restockTaskItems[r].task_id].tray_id].status = needs_restock

\* C27: when calls run one after another, every tray whose status is
\* needs_restock has an open task with at least one unresolved row.
C27_NeedsRestockHasOutstanding ==
    \A t \in 1..Len(trays) :
        trays[t].status = needs_restock =>
            \E r \in 1..Len(restockTaskItems) :
                /\ ~restockTaskItems[r].restocked
                /\ ~InClosedTask(r)
                /\ restockTasks[restockTaskItems[r].task_id].tray_id = t

\* C27 witness: a partial restock has left a tray in needs_restock, with a row
\* of its open task still unresolved
C27_Witness ==
    /\ response = [op |-> "restock_partial", code |-> 200]
    /\ \E t \in 1..Len(trays) :
           /\ trays[t].status = needs_restock
           /\ UnresolvedOfTray(restockTasks, restockTaskItems, t) # {}
           /\ \E r \in 1..Len(restockTaskItems) :
                  restockTaskItems[r].restocked /\ ~InClosedTask(r)

\* C28: when an inventory check and a restock of the same tray run with their
\* steps interleaved, the state left once every call has returned has no
\* unresolved row under a closed task, and no ready tray one of whose rows is
\* unresolved.
C28_NoShortageLost ==
    (\A w \in Workers : pc[w] = Idle) =>
        /\ \A r \in 1..Len(restockTaskItems) :
               ~(~restockTaskItems[r].restocked /\ InClosedTask(r))
        /\ \A t \in 1..Len(trays) :
               trays[t].status = ready =>
                   UnresolvedOfTray(restockTasks, restockTaskItems, t) = {}

\* what a successful dropoff p may change of its tray: the status, the last-seen
\* fields, the linked case when one is supplied, and the colour
C29_Tray(tray, after, p) ==
    [tray EXCEPT
        !.status = in_location,
        !.last_seen_lat = p.gps.lat,
        !.last_seen_lng = p.gps.lng,
        !.last_location_type = p.location_type,
        !.linked_case_id = IF p.case_id # NoneStr THEN p.case_id ELSE @,
        !.color = after.color]

C29_Post(p) ==
    (log_dropoff(p) /\ TrayExists(p.tray_id)) =>
        /\ trays' = [trays EXCEPT ![p.tray_id] = C29_Tray(@, trays'[p.tray_id], p)]
        /\ Len(events') = Len(events) + 1
        /\ SubSeq(events', 1, Len(events)) = events
        /\ UNCHANGED <<trayItems, restockTasks, restockTaskItems, standaloneItems>>

\* C29: a dropoff changes only its tray's status (to in_location, whatever it
\* was), last-seen fields, linked_case_id (only when a case id is supplied) and
\* colour, and appends one event; priority_numeric, priority_partial, every item
\* quantity, every task and every row stay as they were.
C29_DropoffFrame ==
    [][\A p \in PrioDropoffRequests : C29_Post(p)]_vars

\* C29 witness: a dropoff with a case id has acted on a tray that carries a
\* priority and an unresolved row
C29_Witness ==
    /\ response = [op |-> "dropoff", code |-> 200]
    /\ LastEvent.type = "dropoff"
    /\ LET t == LastEvent.tray_id
       IN  /\ trays[t].status = in_location
           /\ trays[t].linked_case_id = "C-1"
           /\ trays[t].priority_numeric # None
           /\ UnresolvedOfTray(restockTasks, restockTaskItems, t) # {}

\* C30: delete_doctor on an existing doctor, whatever the number of note pins
\* attached to it (none, one or several), removes the doctor and every NotePin
\* of entity_type doctor that points at it, as delete_case does for a case.
C30_DeleteDoctorRemovesPins ==
    [][\A d \in 1..MaxDoctors :
          (delete_doctor(d) /\ RowExists(doctors, d)) =>
              /\ ~RowExists(doctors', d)
              /\ PinsOf(notePins', "doctor", d) = {}]_vars

=============================================================================
